---- MODULE Spec2Model ----
(***************************************************************************)
(* A model of window_functions_streamlit_app.py: the sample data           *)
(* generator, the cached in-memory SQLite store, execute_query and the     *)
(* script runs of the browser sessions that use them.                      *)
(***************************************************************************)
EXTENDS Integers, Sequences, FiniteSets, TLC

(* Python's None and a present value, as sequences of length 0 and 1, so   *)
(* that an absent and a present value can always be compared.              *)
None == <<>>
Some(v) == <<v>>

VARIABLES
    cache,        \* st.cache_resource's entry for init_database: None or Some(id)
    conns,        \* the sqlite3 connections created so far, by id
    status,       \* per session: "new", "active" or "ended"
    conn,         \* per session: the module-level conn of its last script run
    uncaught,     \* per session: its last script run died of an uncaught exception
    example,      \* per session: what the running-total example last displayed
    shown,        \* per session: what the Sample Data page last displayed
    provisioned,  \* the dataset create_sample_data returned to init_database
    handed,       \* the connection ids init_database has returned so far
    lastRun,      \* the last script run: its session, page and execute_query calls
    runs,         \* script runs so far
    inflight,     \* per session: the execute_query call its script thread is in
    rating        \* per session: the reaction keys of st.session_state, whether
                  \* the thank-you message is shown, whether st.rerun() is pending

vars ==
    <<cache, conns, status, conn, uncaught, example, shown, provisioned,
      handed, lastRun, runs, inflight, rating>>

(* ------------------------------------------------------------------------ *)
(* Bounds of the model.                                                     *)

\* Script runs explored, over all sessions of the process.
MaxRuns == 3

\* The browser sessions of the one Streamlit process: two, the least number
\* in which what sessions share shows.
Sessions == {1, 2}

(* ------------------------------------------------------------------------ *)
(* datetime arithmetic used by create_sample_data.                          *)

IsLeap(y) == (y % 4 = 0 /\ y % 100 # 0) \/ y % 400 = 0

DaysInMonth(y, m) ==
    IF m = 2 THEN (IF IsLeap(y) THEN 29 ELSE 28)
    ELSE IF m \in {4, 6, 9, 11} THEN 30 ELSE 31

\* datetime(y, m, d): Python raises ValueError for a day outside the month.
ValidDate(dt) ==
    /\ dt[2] \in 1..12
    /\ dt[3] \in 1..DaysInMonth(dt[1], dt[2])

\* dt + timedelta(days=1)
NextDay(dt) ==
    IF dt[3] < DaysInMonth(dt[1], dt[2]) THEN <<dt[1], dt[2], dt[3] + 1>>
    ELSE IF dt[2] < 12 THEN <<dt[1], dt[2] + 1, 1>>
    ELSE <<dt[1] + 1, 1, 1>>

RECURSIVE AddDays(_, _)
\* dt + timedelta(days=n), n >= 0
AddDays(dt, n) == IF n = 0 THEN dt ELSE AddDays(NextDay(dt), n - 1)

(* ------------------------------------------------------------------------ *)
(* create_sample_data: four DataFrames, each a column list and a row list.  *)

DataFrame(cols, rows) == [cols |-> cols, rows |-> rows]

EmployeesData ==
    DataFrame(
      <<"employee_id", "employee_name", "department", "salary", "hire_date">>,
      << <<1, "Alice", "Sales", 60000, "2020-01-15">>,
         <<2, "Bob", "Sales", 75000, "2019-03-20">>,
         <<3, "Charlie", "Sales", 55000, "2021-06-10">>,
         <<4, "Diana", "IT", 85000, "2018-02-01">>,
         <<5, "Eve", "IT", 90000, "2017-08-15">>,
         <<6, "Frank", "IT", 80000, "2019-11-30">>,
         <<7, "Grace", "HR", 65000, "2020-05-10">>,
         <<8, "Henry", "HR", 70000, "2021-02-20">>,
         <<9, "Iris", "Finance", 72000, "2019-04-15">>,
         <<10, "Jack", "Finance", 68000, "2022-01-10">> >>)

SalesProduct ==
    <<"A", "B", "A", "C", "B", "A", "C", "B", "A", "C",
      "B", "A", "C", "B", "A", "C", "B", "A", "C", "B">>

SalesAmount ==
    <<100, 150, 120, 200, 180, 140, 220, 160, 130, 210,
      190, 150, 230, 170, 140, 250, 200, 160, 240, 210>>

\* The regions with a fifth one, "Central".
SalesRegionCentral ==
    <<"North", "South", "North", "South", "East", "West", "East", "West",
      "North", "South", "Central", "South", "East", "West", "East", "West",
      "North", "South", "North", "South">>

SalesRegion ==
    <<"North", "South", "North", "South", "East", "West", "East", "West",
      "North", "South", "North", "South", "East", "West", "East", "West",
      "North", "South", "North", "South">>

\* sale_date of index i (0-based): datetime(2024, 1, 1) + timedelta(days=i*2)
SaleDate(i) == AddDays(<<2024, 1, 1>>, i * 2)

SalesData ==
    DataFrame(
      <<"sale_id", "sale_date", "product", "amount", "region">>,
      [k \in 1..20 |->
         <<k, SaleDate(k - 1), SalesProduct[k], SalesAmount[k], SalesRegion[k]>>])

OrdersCustomerId ==
    <<1, 1, 1, 2, 2, 2, 3, 3, 4, 4, 5, 5, 5, 6, 6, 7, 7, 8, 8, 9>>

OrdersCustomerName ==
    <<"John", "John", "John", "Jane", "Jane", "Jane", "Mike", "Mike",
      "Sarah", "Sarah", "Tom", "Tom", "Tom", "Alice", "Alice", "Bob", "Bob",
      "Carol", "Carol", "David">>

OrdersAmount ==
    <<100, 250, 150, 200, 300, 250, 120, 180, 90, 140,
      250, 200, 180, 160, 220, 140, 190, 230, 200, 150>>

\* The February branch with the day taken modulo 30.
OrderDateModulo30(i) ==
    IF i * 2 + 1 <= 31 THEN <<2024, 1, i * 2 + 1>>
    ELSE <<2024, 2, ((i * 2) + 1) % 30>>

\* order_date of index i (0-based):
\* datetime(2024, 1, i*2+1) if i*2+1 <= 31 else datetime(2024, 2, (i*2+1)%31)
OrderDate(i) ==
    IF i * 2 + 1 <= 31 THEN <<2024, 1, i * 2 + 1>>
    ELSE <<2024, 2, ((i * 2) + 1) % 31>>

OrdersData ==
    DataFrame(
      <<"order_id", "customer_id", "customer_name", "order_date", "order_amount">>,
      [k \in 1..20 |->
         <<k, OrdersCustomerId[k], OrdersCustomerName[k], OrderDate(k - 1),
           OrdersAmount[k]>>])

PerformanceData ==
    DataFrame(
      <<"employee_id", "month", "revenue", "target">>,
      << <<1, "Jan 2024", 5000, 5000>>,
         <<2, "Jan 2024", 7500, 6000>>,
         <<3, "Jan 2024", 4500, 5000>>,
         <<4, "Jan 2024", 8500, 8000>>,
         <<5, "Jan 2024", 9000, 8500>>,
         <<6, "Feb 2024", 6000, 5000>>,
         <<7, "Feb 2024", 8000, 6000>>,
         <<8, "Feb 2024", 5500, 5000>>,
         <<9, "Feb 2024", 9500, 8000>>,
         <<10, "Feb 2024", 7000, 8500>> >>)

\* create_sample_data with sale_date anchored at the time of the call instead
\* of datetime(2024, 1, 1).
CreateSampleDataWallClock ==
    [employees |-> EmployeesData,
     sales |-> [SalesData EXCEPT
                  !.rows = [k \in DOMAIN @ |->
                              [@[k] EXCEPT ![2] = AddDays(@, runs)]]],
     orders |-> OrdersData,
     performance |-> PerformanceData]

\* The tuple create_sample_data returns, by table name.
CreateSampleData ==
    [employees |-> EmployeesData,
     sales |-> SalesData,
     orders |-> OrdersData,
     performance |-> PerformanceData]

(* ------------------------------------------------------------------------ *)
(* DataFrame.to_sql(name, conn, if_exists='replace', index=False).          *)

\* The columns whose cells are datetime objects (lines 59 and 70).
DatetimeCols == {"sale_date", "order_date"}

Digits == <<"0", "1", "2", "3", "4", "5", "6", "7", "8", "9">>

Fmt2(n) == Digits[((n \div 10) % 10) + 1] \o Digits[(n % 10) + 1]

\* str(n) for 0 <= n < 100
NumStr(n) == IF n < 10 THEN Digits[n + 1] ELSE Fmt2(n)

Fmt4(n) == Fmt2(n \div 100) \o Fmt2(n % 100)

\* The text SQLite stores for a datetime cell: val.isoformat(" ").
FormatDatetime(dt) ==
    Fmt4(dt[1]) \o "-" \o Fmt2(dt[2]) \o "-" \o Fmt2(dt[3]) \o " 00:00:00"

\* The SQL table a DataFrame is written as: same columns, same row order,
\* datetime cells as text.
ToSqlTable(df) ==
    [cols |-> df.cols,
     rows |-> [r \in 1..Len(df.rows) |->
                 [c \in 1..Len(df.cols) |->
                    IF df.cols[c] \in DatetimeCols
                    THEN FormatDatetime(df.rows[r][c])
                    ELSE df.rows[r][c]]]]

\* tables with table `name` dropped if it exists and created from df.
ToSql(tables, name, df) ==
    [n \in DOMAIN tables \cup {name} |->
       IF n = name THEN ToSqlTable(df) ELSE tables[n]]

(* ------------------------------------------------------------------------ *)
(* init_database, without its cache: a new in-memory connection loaded with *)
(* the four tables.  A connection is its live tables, the tables as of the  *)
(* last commit, and whether a transaction is open (sqlite3 opens one        *)
(* implicitly before INSERT, UPDATE and DELETE; to_sql commits its own).    *)

EmptyTables == [n \in {} |-> None]

Connect(tables) ==
    [live |-> tables, saved |-> tables, inTxn |-> FALSE, open |-> TRUE]

InitDatabaseBody ==
    LET data == CreateSampleData
        t1 == ToSql(EmptyTables, "employees", data.employees)
        t2 == ToSql(t1, "sales", data.sales)
        t3 == ToSql(t2, "orders", data.orders)
        t4 == ToSql(t3, "performance", data.performance)
    IN Connect(t4)

(* ------------------------------------------------------------------------ *)
(* SQL texts.  The catalog example is the page's literal; the others are    *)
(* texts a user can type into the Custom Query text area.                   *)

\* "Running Total by Department", the first example of the Aggregate page.
RunningTotalQuery ==
    "SELECT employee_id, employee_name, department, salary, SUM(salary) OVER (PARTITION BY department ORDER BY employee_id ROWS BETWEEN UNBOUNDED PRECEDING AND CURRENT ROW) AS running_total FROM employees ORDER BY department, employee_id;"

\* "Sales Amount Ranking by Region", "Dense Ranking by Product" and "Quartile
\* Analysis - Sales by Quartile", examples of the Ranking Functions page.
RankQuery ==
    "SELECT RANK() OVER (PARTITION BY region ORDER BY amount DESC) AS rank, product, region, amount FROM sales ORDER BY region, rank;"

DenseRankQuery ==
    "SELECT DENSE_RANK() OVER (PARTITION BY product ORDER BY amount DESC) AS rank, product, region, amount FROM sales ORDER BY product, rank;"

NtileQuery ==
    "SELECT NTILE(4) OVER (ORDER BY order_amount DESC) AS quartile, customer_name, order_amount FROM orders ORDER BY quartile, order_amount DESC;"

\* The quartile example's window function over the ten employees.
NtileEmployeesQuery ==
    "SELECT NTILE(4) OVER (ORDER BY salary DESC) AS quartile, employee_name, salary FROM employees ORDER BY quartile, salary DESC;"

\* The two window expressions of "Mistake 2: Wrong Frame for LAST_VALUE()" of
\* the Quick Reference page, selected from employees.
LastValueDefaultQuery ==
    "SELECT employee_id, department, salary, LAST_VALUE(salary) OVER (PARTITION BY department ORDER BY employee_id) AS last_salary FROM employees ORDER BY department, employee_id;"

LastValueFullQuery ==
    "SELECT employee_id, department, salary, LAST_VALUE(salary) OVER (PARTITION BY department ORDER BY employee_id ROWS BETWEEN UNBOUNDED PRECEDING AND UNBOUNDED FOLLOWING) AS last_salary FROM employees ORDER BY department, employee_id;"

\* A selection that returns no row once the HR rows are gone.
FilterQuery == "SELECT * FROM employees WHERE department = 'HR'"

SyntaxErrorQuery == "SELEC * FROM employees"
DeleteQuery == "DELETE FROM employees WHERE department = 'HR'"
InsertQuery == "INSERT INTO employees VALUES (11, 'Kim', 'Sales', 50000, '2023-03-01')"
UpdateQuery == "UPDATE employees SET salary = 0 WHERE department = 'IT'"
DropQuery == "DROP TABLE performance"
AlterQuery == "ALTER TABLE sales ADD COLUMN note TEXT"
CreateQuery == "CREATE TABLE scratch (x INTEGER)"

\* Values of query_input, the text area of the Custom Query page.
QueryInputs ==
    {RunningTotalQuery, SyntaxErrorQuery, DeleteQuery, InsertQuery,
     UpdateQuery, DropQuery, AlterQuery, CreateQuery}

\* Values of query_input of a user who tries the window functions, between
\* changes to the employees table.
WindowInputs ==
    {NtileEmployeesQuery, LastValueDefaultQuery, LastValueFullQuery,
     FilterQuery, DeleteQuery, InsertQuery, UpdateQuery}

\* The values of the partition columns in BINARY collation order.
DepartmentOrder == <<"Finance", "HR", "IT", "Sales">>
RegionOrder == <<"East", "North", "South", "West">>
ProductOrder == <<"A", "B", "C">>

\* What SQLite's parser makes of each text.
Parse(q) ==
    CASE q = RunningTotalQuery ->
           [kind |-> "select_running_total", table |-> "employees"]
      [] q = RankQuery ->
           [kind |-> "select_window", table |-> "sales", fn |-> "rank",
            partCol |-> Some("region"), parts |-> RegionOrder,
            orderCol |-> "amount", desc |-> TRUE, arg |-> None,
            fnFirst |-> TRUE, fnName |-> "rank",
            proj |-> <<"product", "region", "amount">>]
      [] q = DenseRankQuery ->
           [kind |-> "select_window", table |-> "sales", fn |-> "dense_rank",
            partCol |-> Some("product"), parts |-> ProductOrder,
            orderCol |-> "amount", desc |-> TRUE, arg |-> None,
            fnFirst |-> TRUE, fnName |-> "rank",
            proj |-> <<"product", "region", "amount">>]
      [] q = NtileQuery ->
           [kind |-> "select_window", table |-> "orders", fn |-> "ntile",
            partCol |-> None, parts |-> <<None>>,
            orderCol |-> "order_amount", desc |-> TRUE, arg |-> Some(4),
            fnFirst |-> TRUE, fnName |-> "quartile",
            proj |-> <<"customer_name", "order_amount">>]
      [] q = NtileEmployeesQuery ->
           [kind |-> "select_window", table |-> "employees", fn |-> "ntile",
            partCol |-> None, parts |-> <<None>>,
            orderCol |-> "salary", desc |-> TRUE, arg |-> Some(4),
            fnFirst |-> TRUE, fnName |-> "quartile",
            proj |-> <<"employee_name", "salary">>]
      [] q = LastValueDefaultQuery ->
           [kind |-> "select_window", table |-> "employees",
            fn |-> "last_value_range",
            partCol |-> Some("department"), parts |-> DepartmentOrder,
            orderCol |-> "employee_id", desc |-> FALSE, arg |-> Some("salary"),
            fnFirst |-> FALSE, fnName |-> "last_salary",
            proj |-> <<"employee_id", "department", "salary">>]
      [] q = LastValueFullQuery ->
           [kind |-> "select_window", table |-> "employees",
            fn |-> "last_value_partition",
            partCol |-> Some("department"), parts |-> DepartmentOrder,
            orderCol |-> "employee_id", desc |-> FALSE, arg |-> Some("salary"),
            fnFirst |-> FALSE, fnName |-> "last_salary",
            proj |-> <<"employee_id", "department", "salary">>]
      [] q = FilterQuery ->
           [kind |-> "select_where", table |-> "employees",
            whereCol |-> "department", whereVal |-> "HR"]
      [] q = DeleteQuery ->
           [kind |-> "delete", table |-> "employees",
            whereCol |-> "department", whereVal |-> "HR"]
      [] q = InsertQuery ->
           [kind |-> "insert", table |-> "employees",
            values |-> <<11, "Kim", "Sales", 50000, "2023-03-01">>]
      [] q = UpdateQuery ->
           [kind |-> "update", table |-> "employees",
            setCol |-> "salary", setVal |-> 0,
            whereCol |-> "department", whereVal |-> "IT"]
      [] q = DropQuery -> [kind |-> "drop", table |-> "performance"]
      [] q = AlterQuery ->
           [kind |-> "alter_add", table |-> "sales", column |-> "note"]
      [] q = CreateQuery ->
           [kind |-> "create", table |-> "scratch", columns |-> <<"x">>]
      [] OTHER ->
           [kind |-> "syntax_error", table |-> "",
            diag |-> "near \"SELEC\": syntax error"]

Range(seq) == {seq[i] : i \in DOMAIN seq}

\* The position of column `name` in a column list that holds it.
ColIndex(cols, name) == CHOOSE c \in DOMAIN cols : cols[c] = name

\* SQLite's NULL, as held in a cell.
Null == "NULL"

RECURSIVE InsertById(_, _, _)
\* seq, sorted by column id, with row r put after every row whose id is not
\* greater (rows of equal id stay in rowid order).
InsertById(seq, r, id) ==
    IF seq = <<>> THEN <<r>>
    ELSE IF seq[Len(seq)][id] <= r[id] THEN Append(seq, r)
    ELSE Append(InsertById(SubSeq(seq, 1, Len(seq) - 1), r, id), seq[Len(seq)])

RECURSIVE SortById(_, _)
\* ORDER BY employee_id within a partition
SortById(seq, id) ==
    IF seq = <<>> THEN <<>>
    ELSE InsertById(SortById(SubSeq(seq, 1, Len(seq) - 1), id), seq[Len(seq)], id)

RECURSIVE CumulatePreceding(_, _, _, _)
\* The frame ROWS BETWEEN UNBOUNDED PRECEDING AND 1 PRECEDING: each row with
\* the sum of the rows before it.
CumulatePreceding(seq, proj, col, before) ==
    IF seq = <<>> THEN <<>>
    ELSE <<Append([k \in DOMAIN proj |-> Head(seq)[proj[k]]], before)>>
         \o CumulatePreceding(Tail(seq), proj, col, before + Head(seq)[col])

RECURSIVE Cumulate(_, _, _, _)
\* SUM(col) OVER (... ROWS BETWEEN UNBOUNDED PRECEDING AND CURRENT ROW) along
\* a sorted partition: each projected row with the sum up to and including it.
Cumulate(seq, proj, col, before) ==
    IF seq = <<>> THEN <<>>
    ELSE LET r == Head(seq)
             total == before + r[col]
         IN <<Append([k \in DOMAIN proj |-> r[proj[k]]], total)>>
            \o Cumulate(Tail(seq), proj, col, total)

RECURSIVE ByPartition(_, _, _, _, _)
\* The window computed partition by partition, partitions in ORDER BY order.
ByPartition(rows, parts, dp, id, out) ==
    IF parts = <<>> THEN <<>>
    ELSE LET part == SelectSeq(rows, LAMBDA r : r[dp] = Head(parts))
         IN Cumulate(SortById(part, id), out[1], out[2], 0)
            \o ByPartition(rows, Tail(parts), dp, id, out)

\* The rows the running-total example returns for an employees table.
RunningTotalRows(tbl) ==
    LET id == ColIndex(tbl.cols, "employee_id")
        nm == ColIndex(tbl.cols, "employee_name")
        dp == ColIndex(tbl.cols, "department")
        sl == ColIndex(tbl.cols, "salary")
    IN ByPartition(tbl.rows, DepartmentOrder, dp, id, <<<<id, nm, dp, sl>>, sl>>)

RunningTotalCols ==
    <<"employee_id", "employee_name", "department", "salary", "running_total">>

(* ------------------------------------------------------------------------ *)
(* Window functions of the other examples: the rows of each partition in    *)
(* window order, the function's value for each of them, and the partitions  *)
(* in the order of the statement's ORDER BY.  Rows that tie in the window   *)
(* order are taken in rowid order.                                          *)

RECURSIVE InsertDesc(_, _, _)
\* seq, sorted by column c descending, with row r put after every row whose
\* value is not smaller.
InsertDesc(seq, r, c) ==
    IF seq = <<>> THEN <<r>>
    ELSE IF seq[Len(seq)][c] >= r[c] THEN Append(seq, r)
    ELSE Append(InsertDesc(SubSeq(seq, 1, Len(seq) - 1), r, c), seq[Len(seq)])

RECURSIVE SortDesc(_, _)
\* ORDER BY c DESC
SortDesc(seq, c) ==
    IF seq = <<>> THEN <<>>
    ELSE InsertDesc(SortDesc(SubSeq(seq, 1, Len(seq) - 1), c), seq[Len(seq)], c)

\* The rows of the partition with value v of the PARTITION BY column; all
\* rows when the window has no PARTITION BY.
PartitionRows(stmt, tbl, v) ==
    IF stmt.partCol = None THEN tbl.rows
    ELSE SelectSeq(tbl.rows,
                   LAMBDA r : r[ColIndex(tbl.cols, stmt.partCol[1])] = v)

\* A partition in the order of the window's ORDER BY.
WindowOrder(stmt, part, c) ==
    IF stmt.desc THEN SortDesc(part, c) ELSE SortById(part, c)

\* ROW_NUMBER() in place of RANK() and DENSE_RANK(): peers get numbers of
\* their own.
PeerRankRowNumber(tied, prevRank, pos, dense) == pos

\* The rank of the row at position pos of its partition, prevRank the rank
\* of the row before it and tied whether the two are peers: peers share a
\* rank; the next rank is the row's position under RANK() and one more than
\* the previous rank under DENSE_RANK().
PeerRank(tied, prevRank, pos, dense) ==
    IF tied THEN prevRank
    ELSE IF dense THEN prevRank + 1
    ELSE pos

RECURSIVE RankAt(_, _, _, _)
\* RANK() (DENSE_RANK() when dense) of row i of a partition sorted by c
RankAt(sorted, c, i, dense) ==
    IF i = 1 THEN 1
    ELSE PeerRank(sorted[i][c] = sorted[i - 1][c],
                  RankAt(sorted, c, i - 1, dense), i, dense)

\* Buckets of ceil(count / n) rows each, the last one short.
NtileBucketCeiling(i, n, count) ==
    ((i - 1) \div ((count + n - 1) \div n)) + 1

\* NTILE(n) of row i of count rows: the first count % n buckets hold one row
\* more than the others.
NtileBucket(i, n, count) ==
    LET small == count \div n
        large == (count % n) * (small + 1)
    IN IF i <= large THEN ((i - 1) \div (small + 1)) + 1
       ELSE (count % n) + ((i - large - 1) \div small) + 1

RECURSIVE LastPeer(_, _, _)
\* The last row that ties with row i in the window order.
LastPeer(sorted, c, i) ==
    IF i < Len(sorted) /\ sorted[i + 1][c] = sorted[i][c]
    THEN LastPeer(sorted, c, i + 1)
    ELSE i

\* A frame that ends at the end of the partition whatever the frame clause.
FrameEndOfPartition(sorted, c, i, fn) == Len(sorted)

\* The last row of the frame of row i: the default frame, RANGE BETWEEN
\* UNBOUNDED PRECEDING AND CURRENT ROW, ends at the row's last peer; ROWS
\* BETWEEN UNBOUNDED PRECEDING AND UNBOUNDED FOLLOWING ends at the last row
\* of the partition.
FrameEnd(sorted, c, i, fn) ==
    IF fn = "last_value_partition" THEN Len(sorted)
    ELSE LastPeer(sorted, c, i)

\* The window function's value for row i of a sorted partition.
WindowValue(stmt, cols, sorted, i) ==
    CASE stmt.fn = "rank" ->
           RankAt(sorted, ColIndex(cols, stmt.orderCol), i, FALSE)
      [] stmt.fn = "dense_rank" ->
           RankAt(sorted, ColIndex(cols, stmt.orderCol), i, TRUE)
      [] stmt.fn = "ntile" -> NtileBucket(i, stmt.arg[1], Len(sorted))
      [] OTHER ->
           sorted[FrameEnd(sorted, ColIndex(cols, stmt.orderCol), i, stmt.fn)]
                 [ColIndex(cols, stmt.arg[1])]

\* The result row for row i of a sorted partition.
WindowRow(stmt, cols, sorted, i) ==
    IF stmt.fnFirst
    THEN <<WindowValue(stmt, cols, sorted, i)>>
         \o [k \in DOMAIN stmt.proj |-> sorted[i][ColIndex(cols, stmt.proj[k])]]
    ELSE [k \in DOMAIN stmt.proj |-> sorted[i][ColIndex(cols, stmt.proj[k])]]
         \o <<WindowValue(stmt, cols, sorted, i)>>

WindowPartition(stmt, cols, sorted) ==
    [i \in DOMAIN sorted |-> WindowRow(stmt, cols, sorted, i)]

RECURSIVE WindowRows(_, _, _)
\* The rows a window statement returns for table tbl, parts the values of
\* its partitions still to come.
WindowRows(stmt, tbl, parts) ==
    IF parts = <<>> THEN <<>>
    ELSE WindowPartition(stmt, tbl.cols,
                         WindowOrder(stmt, PartitionRows(stmt, tbl, Head(parts)),
                                     ColIndex(tbl.cols, stmt.orderCol)))
         \o WindowRows(stmt, tbl, Tail(parts))

WindowCols(stmt) ==
    IF stmt.fnFirst THEN <<stmt.fnName>> \o stmt.proj
    ELSE stmt.proj \o <<stmt.fnName>>

\* The columns a window statement names, in the order it names them.
WindowNeeds(stmt) ==
    LET over == (IF stmt.partCol = None THEN <<>> ELSE stmt.partCol)
                \o <<stmt.orderCol>>
    IN IF stmt.fnFirst THEN over \o stmt.proj
       ELSE stmt.proj \o stmt.arg \o over

\* The rows of SELECT * FROM t WHERE whereCol = whereVal
WhereRows(stmt, tbl) ==
    SelectSeq(tbl.rows,
              LAMBDA r : r[ColIndex(tbl.cols, stmt.whereCol)] = stmt.whereVal)

(* ------------------------------------------------------------------------ *)
(* sqlite3: cursor.execute(sql) on a connection.                            *)

\* "no such column" for the first of the names that table columns cols lack.
MissingColumn(names, cols) ==
    IF \A k \in DOMAIN names : names[k] \in cols THEN None
    ELSE Some("no such column: "
              \o names[CHOOSE k \in DOMAIN names :
                          /\ names[k] \notin cols
                          /\ \A j \in 1..(k - 1) : names[j] \in cols])

\* The diagnostic of sqlite3_prepare for a statement, None when it compiles.
PrepareError(stmt, tables) ==
    IF stmt.kind = "syntax_error" THEN Some(stmt.diag)
    ELSE IF stmt.kind = "create"
    THEN IF stmt.table \in DOMAIN tables
         THEN Some("table " \o stmt.table \o " already exists")
         ELSE None
    ELSE IF stmt.table \notin DOMAIN tables
    THEN Some("no such table: " \o stmt.table)
    ELSE LET cols == Range(tables[stmt.table].cols)
         IN CASE stmt.kind = "select_running_total" ->
                   IF "employee_id" \notin cols
                   THEN Some("no such column: employee_id")
                   ELSE IF "employee_name" \notin cols
                   THEN Some("no such column: employee_name")
                   ELSE IF "department" \notin cols
                   THEN Some("no such column: department")
                   ELSE IF "salary" \notin cols
                   THEN Some("no such column: salary")
                   ELSE None
              [] stmt.kind = "select_window" ->
                   MissingColumn(WindowNeeds(stmt), cols)
              [] stmt.kind = "select_where" ->
                   MissingColumn(<<stmt.whereCol>>, cols)
              [] stmt.kind = "delete" ->
                   IF stmt.whereCol \notin cols
                   THEN Some("no such column: " \o stmt.whereCol)
                   ELSE None
              [] stmt.kind = "update" ->
                   IF stmt.setCol \notin cols
                   THEN Some("no such column: " \o stmt.setCol)
                   ELSE IF stmt.whereCol \notin cols
                   THEN Some("no such column: " \o stmt.whereCol)
                   ELSE None
              [] stmt.kind = "insert" ->
                   IF Len(stmt.values) # Len(tables[stmt.table].cols)
                   THEN Some("table " \o stmt.table \o " has "
                             \o NumStr(Len(tables[stmt.table].cols))
                             \o " columns but " \o NumStr(Len(stmt.values))
                             \o " values were supplied")
                   ELSE None
              [] stmt.kind = "alter_add" ->
                   IF stmt.column \in cols
                   THEN Some("duplicate column name: " \o stmt.column)
                   ELSE None
              [] OTHER -> None

\* The tables after a statement that compiled has run.
ApplyStatement(stmt, tables) ==
    LET t == stmt.table
        Replace(tbl) == [n \in DOMAIN tables |-> IF n = t THEN tbl ELSE tables[n]]
    IN CASE stmt.kind = "delete" ->
              LET c == ColIndex(tables[t].cols, stmt.whereCol)
              IN Replace([tables[t] EXCEPT
                            !.rows = SelectSeq(@, LAMBDA r : r[c] # stmt.whereVal)])
         [] stmt.kind = "insert" ->
              Replace([tables[t] EXCEPT !.rows = Append(@, stmt.values)])
         [] stmt.kind = "update" ->
              LET c == ColIndex(tables[t].cols, stmt.whereCol)
                  u == ColIndex(tables[t].cols, stmt.setCol)
              IN Replace([tables[t] EXCEPT
                            !.rows = [i \in DOMAIN @ |->
                                        IF @[i][c] = stmt.whereVal
                                        THEN [@[i] EXCEPT ![u] = stmt.setVal]
                                        ELSE @[i]]])
         [] stmt.kind = "drop" ->
              [n \in DOMAIN tables \ {t} |-> tables[n]]
         [] stmt.kind = "alter_add" ->
              Replace([cols |-> Append(tables[t].cols, stmt.column),
                       rows |-> [i \in DOMAIN tables[t].rows |->
                                   Append(tables[t].rows[i], Null)]])
         [] stmt.kind = "create" ->
              [n \in DOMAIN tables \cup {t} |->
                 IF n = t THEN [cols |-> stmt.columns, rows |-> <<>>]
                 ELSE tables[n]]
         [] OTHER -> tables

\* The statements before which sqlite3 opens a transaction implicitly.
IsDML(stmt) == stmt.kind \in {"insert", "update", "delete"}

\* The connection after a statement that returns no rows has run: a DML
\* statement opens a transaction if none is open, any other one takes effect
\* at once when none is open.
AfterStatement(stmt, db, live) ==
    IF IsDML(stmt) \/ db.inTxn
    THEN [db EXCEPT !.live = live, !.inTxn = TRUE]
    ELSE [db EXCEPT !.live = live, !.saved = live]

\* The cursor after execute: the connection, the engine's diagnostic when it
\* raised, and description and rows (description is None for a statement
\* that returns no rows).
Cursor(stmt, db, err) ==
    IF err # None
    THEN [db |-> db, diag |-> err, description |-> None, rows |-> <<>>]
    ELSE IF stmt.kind = "select_running_total"
    THEN [db |-> db, diag |-> None,
          description |-> Some(RunningTotalCols),
          rows |-> RunningTotalRows(db.live[stmt.table])]
    ELSE IF stmt.kind = "select_window"
    THEN [db |-> db, diag |-> None,
          description |-> Some(WindowCols(stmt)),
          rows |-> WindowRows(stmt, db.live[stmt.table], stmt.parts)]
    ELSE IF stmt.kind = "select_where"
    THEN [db |-> db, diag |-> None,
          description |-> Some(db.live[stmt.table].cols),
          rows |-> WhereRows(stmt, db.live[stmt.table])]
    ELSE [db |-> AfterStatement(stmt, db, ApplyStatement(stmt, db.live)),
          diag |-> None, description |-> None, rows |-> <<>>]

Prepared(stmt, db) == Cursor(stmt, db, PrepareError(stmt, db.live))

\* cursor.execute(q) on connection db
SqliteExecute(q, db) == Prepared(Parse(q), db)

\* connection.rollback()
Rollback(db) == [db EXCEPT !.live = db.saved, !.inTxn = FALSE]

(* ------------------------------------------------------------------------ *)
(* pandas: pd.read_sql_query(query, connection) on a sqlite3 connection.    *)

\* SQLiteDatabase.execute rolls the connection back and raises DatabaseError
\* around the engine's message; read_query then builds the frame from
\* cursor.description, which is None when the statement returned no rows.
ReadQuery(q, r) ==
    IF r.diag # None
    THEN [db |-> Rollback(r.db), df |-> None,
          exc |-> Some([type |-> "DatabaseError",
                        msg |-> "Execution failed on sql '" \o q \o "': "
                                \o r.diag[1]])]
    ELSE IF r.description = None
    THEN [db |-> r.db, df |-> None,
          exc |-> Some([type |-> "TypeError",
                        msg |-> "'NoneType' object is not iterable"])]
    ELSE [db |-> r.db, exc |-> None,
          df |-> Some(DataFrame(r.description[1], r.rows))]

ReadSqlQuery(q, db) == ReadQuery(q, SqliteExecute(q, db))

\* The exception classes `except Exception` catches.
ExceptionSubclasses == {"DatabaseError", "TypeError"}

\* execute_query with `except DatabaseError`: a TypeError gets through.
TryExceptDatabaseErrorOnly(r) ==
    IF r.exc = None
    THEN [result |-> r.df, error |-> None, raised |-> None, db |-> r.db]
    ELSE IF r.exc[1].type = "DatabaseError"
    THEN [result |-> None, error |-> Some(r.exc[1].msg), raised |-> None,
          db |-> r.db]
    ELSE [result |-> None, error |-> None, raised |-> r.exc, db |-> r.db]

\* execute_query returning a message of its own instead of str(e).
TryExceptOwnMessage(r) ==
    IF r.exc = None
    THEN [result |-> r.df, error |-> None, raised |-> None, db |-> r.db]
    ELSE [result |-> None, error |-> Some("Query failed"), raised |-> None,
          db |-> r.db]

\* The try statement of execute_query around the call r: (result, None), or
\* (None, str(e)); `raised` is the exception it lets through to its caller.
TryExcept(r) ==
    IF r.exc = None
    THEN [result |-> r.df, error |-> None, raised |-> None, db |-> r.db]
    ELSE IF r.exc[1].type \in ExceptionSubclasses
    THEN [result |-> None, error |-> Some(r.exc[1].msg), raised |-> None,
          db |-> r.db]
    ELSE [result |-> None, error |-> None, raised |-> r.exc, db |-> r.db]

\* execute_query(query, connection)
ExecuteQuery(q, db) == TryExcept(ReadSqlQuery(q, db))

(* ------------------------------------------------------------------------ *)
(* init_database under @st.cache_resource: the body runs on a cache miss    *)
(* and its connection is kept for the process; every later call, from any   *)
(* session, gets that same connection.                                      *)

InitDatabase ==
    IF cache = None
    THEN [conns |-> Append(conns, InitDatabaseBody),
          cache |-> Some(Len(conns) + 1),
          handle |-> Len(conns) + 1,
          provisioned |-> Some(CreateSampleData)]
    ELSE [conns |-> conns, cache |-> cache, handle |-> cache[1],
          provisioned |-> provisioned]

(* ------------------------------------------------------------------------ *)
(* The process: script runs of browser sessions.                            *)

Init ==
    /\ cache = None
    /\ conns = <<>>
    /\ status = [s \in Sessions |-> "new"]
    /\ conn = [s \in Sessions |-> None]
    /\ uncaught = [s \in Sessions |-> FALSE]
    /\ example = [s \in Sessions |-> None]
    /\ shown = [s \in Sessions |-> None]
    /\ provisioned = None
    /\ handed = {}
    /\ lastRun = None
    /\ runs = 0
    /\ inflight = [s \in Sessions |-> None]
    /\ rating = [s \in Sessions |-> None]

\* The top of every script run, up to line 122: conn = init_database().
ScriptTop(s, init) ==
    /\ status[s] # "ended"
    /\ runs < MaxRuns
    /\ runs' = runs + 1
    /\ status' = [status EXCEPT ![s] = "active"]
    /\ cache' = init.cache
    /\ provisioned' = init.provisioned
    /\ conn' = [conn EXCEPT ![s] = Some(init.handle)]
    /\ handed' = handed \cup {init.handle}

(* The "Rate This App" part of the sidebar, lines 160 to 213. *)

Buttons == {"love", "like", "smile"}

\* Lines 166-177 with the flags set to False on every script run.
SessionDefaultsFlagsReset(r) ==
    IF r = None
    THEN [loves |-> 0, likes |-> 0, smiles |-> 0, disabled_love |-> FALSE,
          disabled_like |-> FALSE, disabled_smile |-> FALSE]
    ELSE [r[1].state EXCEPT !.disabled_love = FALSE, !.disabled_like = FALSE,
                            !.disabled_smile = FALSE]

\* Lines 166-177: the six keys of st.session_state, set when they are not in
\* it yet; r is the session's entry of `rating`.
SessionDefaults(r) ==
    IF r = None
    THEN [loves |-> 0, likes |-> 0, smiles |-> 0, disabled_love |-> FALSE,
          disabled_like |-> FALSE, disabled_smile |-> FALSE]
    ELSE r[1].state

\* A handler that disables its own button only.
ButtonClickedOwnFlag(st, b) ==
    CASE b = "love" -> [st EXCEPT !.loves = @ + 1, !.disabled_love = TRUE]
      [] b = "like" -> [st EXCEPT !.likes = @ + 1, !.disabled_like = TRUE]
      [] OTHER -> [st EXCEPT !.smiles = @ + 1, !.disabled_smile = TRUE]

\* The body of `if st.button(...)` of button b, before its st.rerun().
ButtonClicked(st, b) ==
    CASE b = "love" ->
           [st EXCEPT !.loves = @ + 1, !.disabled_love = TRUE,
                      !.disabled_like = TRUE, !.disabled_smile = TRUE]
      [] b = "like" ->
           [st EXCEPT !.likes = @ + 1, !.disabled_like = TRUE,
                      !.disabled_love = TRUE, !.disabled_smile = TRUE]
      [] OTHER ->
           [st EXCEPT !.smiles = @ + 1, !.disabled_smile = TRUE,
                      !.disabled_like = TRUE, !.disabled_love = TRUE]

\* The `disabled` argument button b is rendered with.
Disabled(st, b) ==
    CASE b = "love" -> st.disabled_love
      [] b = "like" -> st.disabled_like
      [] OTHER -> st.disabled_smile

\* Line 203: the condition of the thank-you message.
ThankYou(st) == st.disabled_love \/ st.disabled_like \/ st.disabled_smile

\* The sidebar in a script run with no reaction button pressed: st its
\* session state after lines 166-177.
Rendered(st) == Some([state |-> st, thanks |-> ThankYou(st), rerun |-> FALSE])

Sidebar(s) == rating' = [rating EXCEPT ![s] = Rendered(SessionDefaults(@))]

\* What a page's execute_query call leaves: the connection, the display and
\* the record of the call (diag is what the engine itself reported).
CallRecord(q, r, diag) ==
    [db |-> r.db, raised |-> r.raised,
     display |-> [result |-> r.result, error |-> r.error],
     call |-> [query |-> q, result |-> r.result, error |-> r.error,
               diag |-> diag]]

QueryCall(q, db) == CallRecord(q, ExecuteQuery(q, db), SqliteExecute(q, db).diag)

\* A page that executes no query (Home, Quick Reference, or Custom Query
\* without the button pressed).
StaticPage(s, init) ==
    /\ ScriptTop(s, init)
    /\ Sidebar(s)
    /\ conns' = init.conns
    /\ uncaught' = [uncaught EXCEPT ![s] = FALSE]
    /\ lastRun' = Some([session |-> s, page |-> "Home", calls |-> <<>>])
    /\ UNCHANGED <<example, shown, inflight>>

RunStaticPage(s) == StaticPage(s, InitDatabase)

\* The running-total example of the Aggregate Functions page, c its call.
ExampleShown(s, init, c) ==
    /\ ScriptTop(s, init)
    /\ Sidebar(s)
    /\ conns' = [init.conns EXCEPT ![init.handle] = c.db]
    /\ uncaught' = [uncaught EXCEPT ![s] = c.raised # None]
    /\ example' = [example EXCEPT
                     ![s] = IF c.raised = None THEN Some(c.display) ELSE @]
    /\ lastRun' = Some([session |-> s, page |-> "Aggregate Functions",
                        calls |-> <<c.call>>])
    /\ UNCHANGED <<shown, inflight>>

AggregatePage(s, init) ==
    ExampleShown(s, init, QueryCall(RunningTotalQuery, init.conns[init.handle]))

\* A run of the Aggregate Functions page.
RunAggregatePage(s) == AggregatePage(s, InitDatabase)

\* The examples with the first one run with the text of the call made just
\* before the page, as if the script's one variable `query` were stale.
RankingExamplesStaleQuery ==
    IF lastRun # None /\ lastRun[1].calls # <<>>
    THEN <<lastRun[1].calls[1].query, DenseRankQuery, NtileQuery>>
    ELSE <<RankQuery, DenseRankQuery, NtileQuery>>

\* The query literals of the examples of the Ranking Functions page, in the
\* order of its tabs.
RankingExamples == <<RankQuery, DenseRankQuery, NtileQuery>>

RECURSIVE RunExamples(_, _, _)
RECURSIVE AfterExample(_, _, _)
\* The page's execute_query calls one after the other on connection db, done
\* the calls made so far; an exception out of a call ends the script run.
RunExamples(texts, db, done) ==
    IF texts = <<>> THEN [db |-> db, raised |-> None, calls |-> done]
    ELSE AfterExample(texts, QueryCall(Head(texts), db), done)

AfterExample(texts, c, done) ==
    IF c.raised # None
    THEN [db |-> c.db, raised |-> c.raised, calls |-> Append(done, c.call)]
    ELSE RunExamples(Tail(texts), c.db, Append(done, c.call))

\* The Ranking Functions page, r its calls.
RankingShown(s, init, r) ==
    /\ ScriptTop(s, init)
    /\ Sidebar(s)
    /\ conns' = [init.conns EXCEPT ![init.handle] = r.db]
    /\ uncaught' = [uncaught EXCEPT ![s] = r.raised # None]
    /\ lastRun' = Some([session |-> s, page |-> "Ranking Functions",
                        calls |-> r.calls])
    /\ UNCHANGED <<example, shown, inflight>>

RankingPage(s, init) ==
    RankingShown(s, init,
                 RunExamples(RankingExamples, init.conns[init.handle], <<>>))

\* A run of the Ranking Functions page.
RunRankingPage(s) == RankingPage(s, InitDatabase)

\* The Sample Data page: a fresh create_sample_data() is displayed.
SampleDataPage(s, init) ==
    /\ ScriptTop(s, init)
    /\ Sidebar(s)
    /\ conns' = init.conns
    /\ uncaught' = [uncaught EXCEPT ![s] = FALSE]
    /\ shown' = [shown EXCEPT ![s] = Some(CreateSampleData)]
    /\ lastRun' = Some([session |-> s, page |-> "Sample Data", calls |-> <<>>])
    /\ UNCHANGED <<example, inflight>>

RunSampleDataPage(s) == SampleDataPage(s, InitDatabase)

(* The statistics of the Custom Query page, lines 1038 to 1042. *)

\* The result columns pandas holds as int64; the others hold str objects.
IntegerColumns ==
    {"employee_id", "salary", "running_total", "quartile", "last_salary"}

\* Bytes of a RangeIndex, of an int64 value or object pointer, and of an
\* empty str object (sys.getsizeof("")).
IndexBytes == 128
CellBytes == 8
StrBytes == 49

RECURSIVE SumBytes(_, _)
\* The sum of f over 1..n.
SumBytes(f, n) == IF n = 0 THEN 0 ELSE f[n] + SumBytes(f, n - 1)

\* result.memory_usage(deep=True).sum(): the index, and per cell its eight
\* bytes in the column array plus the size of the str object it points to.
MemoryUsage(df) ==
    IndexBytes
    + SumBytes([k \in 1..(Len(df.rows) * Len(df.cols)) |->
                  LET r == ((k - 1) \div Len(df.cols)) + 1
                      c == ((k - 1) % Len(df.cols)) + 1
                  IN IF df.cols[c] \in IntegerColumns THEN CellBytes
                     ELSE CellBytes + StrBytes + Len(df.rows[r][c])],
               Len(df.rows) * Len(df.cols))

\* round(n / d) to the nearest integer, halves to the even one.
RoundHalfEven(n, d) ==
    IF 2 * (n % d) < d THEN n \div d
    ELSE IF 2 * (n % d) > d THEN (n \div d) + 1
    ELSE (n \div d) + ((n \div d) % 2)

\* f"{bytes / 1024:.2f} KB"
FormatKB(bytes) ==
    NumStr(RoundHalfEven(bytes * 100, 1024) \div 100) \o "."
    \o Fmt2(RoundHalfEven(bytes * 100, 1024) % 100) \o " KB"

\* The three metrics shown for every result, an empty one included.
StatisticsUnguarded(c) ==
    IF c.raised # None \/ c.display.error # None THEN None
    ELSE Some([rows |-> Len(c.display.result[1].rows),
               columns |-> Len(c.display.result[1].cols),
               memory |-> FormatKB(MemoryUsage(c.display.result[1]))])

\* The three metrics the page shows after call c: none after an error, and
\* none for a result without rows (`if len(result) > 0`).
Statistics(c) ==
    IF c.raised # None \/ c.display.error # None THEN None
    ELSE IF Len(c.display.result[1].rows) > 0
    THEN Some([rows |-> Len(c.display.result[1].rows),
               columns |-> Len(c.display.result[1].cols),
               memory |-> FormatKB(MemoryUsage(c.display.result[1]))])
    ELSE None

\* The Custom Query page with the Execute button pressed, c its call.
CustomShown(s, init, c) ==
    /\ ScriptTop(s, init)
    /\ Sidebar(s)
    /\ conns' = [init.conns EXCEPT ![init.handle] = c.db]
    /\ uncaught' = [uncaught EXCEPT ![s] = c.raised # None]
    /\ lastRun' = Some([session |-> s, page |-> "Custom Query",
                        calls |-> <<c.call>>, stats |-> Statistics(c)])
    /\ UNCHANGED <<example, shown, inflight>>

CustomQueryPage(s, q, init) ==
    CustomShown(s, init, QueryCall(q, init.conns[init.handle]))

\* A run of the Custom Query page with query_input = q.
RunCustomQuery(s, q) == CustomQueryPage(s, q, InitDatabase)

\* The browser session goes away: its session state is dropped; no code of
\* the application runs, and the cached connection stays as it is.
EndSession(s) ==
    /\ status[s] = "active"
    /\ status' = [status EXCEPT ![s] = "ended"]
    /\ example' = [example EXCEPT ![s] = None]
    /\ shown' = [shown EXCEPT ![s] = None]
    /\ rating' = [rating EXCEPT ![s] = None]
    /\ UNCHANGED <<cache, conns, conn, uncaught, provisioned, handed, lastRun,
                   runs, inflight>>

Next ==
    \E s \in Sessions :
       \/ RunStaticPage(s)
       \/ RunAggregatePage(s)
       \/ RunSampleDataPage(s)
       \/ \E q \in QueryInputs : RunCustomQuery(s, q)
       \/ EndSession(s)

Spec == Init /\ [][Next]_vars

(* ------------------------------------------------------------------------ *)
(* The same process with sessions that run the catalog pages and try the    *)
(* window functions on the Custom Query page.                               *)

WindowNext ==
    \E s \in Sessions :
       \/ RunAggregatePage(s)
       \/ RunRankingPage(s)
       \/ \E q \in WindowInputs : RunCustomQuery(s, q)
       \/ EndSession(s)

WindowSpec == Init /\ [][WindowNext]_vars

(* ------------------------------------------------------------------------ *)
(* The same process with sessions that use the reaction buttons.  A button  *)
(* can be pressed when the browser shows it enabled, which is how the last  *)
(* script run of the session rendered it; the script run of the press ends  *)
(* at st.rerun(), and the next script run of the session is that rerun.     *)

\* A script run with reaction button b pressed: lines 119 to st.rerun().
ButtonRun(s, b, init) ==
    /\ rating[s] # None
    /\ ~rating[s][1].rerun
    /\ ~Disabled(rating[s][1].state, b)
    /\ ScriptTop(s, init)
    /\ conns' = init.conns
    /\ rating' = [rating EXCEPT
                    ![s] = Some([state |-> ButtonClicked(SessionDefaults(@), b),
                                 thanks |-> @[1].thanks,
                                 rerun |-> TRUE])]
    /\ uncaught' = [uncaught EXCEPT ![s] = FALSE]
    /\ lastRun' = Some([session |-> s, page |-> "Rate This App", calls |-> <<>>])
    /\ UNCHANGED <<example, shown, inflight>>

ClickReaction(s, b) == ButtonRun(s, b, InitDatabase)

SidebarNext ==
    \E s \in Sessions :
       \/ RunStaticPage(s)
       \/ RunSampleDataPage(s)
       \/ \E b \in Buttons : ClickReaction(s, b)
       \/ EndSession(s)

SidebarSpec == Init /\ [][SidebarNext]_vars

(* ------------------------------------------------------------------------ *)
(* The script threads.  Streamlit runs the script of each session in a      *)
(* thread of its own, one script run of a session at a time, and the        *)
(* threads of different sessions run side by side; the connection is opened *)
(* with check_same_thread=False.  Here a run of the Custom Query page is    *)
(* two steps: the thread enters execute_query, and the call returns.        *)

\* The thread of session s runs the script down to line 1029 and enters
\* execute_query(q, conn).
EnterCall(s, q, init) ==
    /\ inflight[s] = None
    /\ ScriptTop(s, init)
    /\ Sidebar(s)
    /\ conns' = init.conns
    /\ inflight' = [inflight EXCEPT
                      ![s] = Some([handle |-> init.handle, query |-> q])]
    /\ UNCHANGED <<uncaught, example, shown, lastRun>>

BeginQuery(s, q) == EnterCall(s, q, InitDatabase)

\* The call of session s returns, c what it did on the connection as the
\* other threads have left it, and the page displays the outcome.
ReturnCall(s, h, c) ==
    /\ conns' = [conns EXCEPT ![h] = c.db]
    /\ uncaught' = [uncaught EXCEPT ![s] = c.raised # None]
    /\ lastRun' = Some([session |-> s, page |-> "Custom Query",
                        calls |-> <<c.call>>, stats |-> Statistics(c)])
    /\ inflight' = [inflight EXCEPT ![s] = None]
    /\ UNCHANGED <<cache, status, conn, example, shown, provisioned, handed,
                   runs, rating>>

EndQuery(s) ==
    /\ inflight[s] # None
    /\ ReturnCall(s, inflight[s][1].handle,
                  QueryCall(inflight[s][1].query, conns[inflight[s][1].handle]))

\* The browser session goes away once its script thread has finished.
EndIdleSession(s) == inflight[s] = None /\ EndSession(s)

ThreadNext ==
    \E s \in Sessions :
       \/ \E q \in QueryInputs : BeginQuery(s, q)
       \/ EndQuery(s)
       \/ EndIdleSession(s)

ThreadSpec == Init /\ [][ThreadNext]_vars

(* ------------------------------------------------------------------------ *)
(* Properties.                                                              *)

TableNames == {"employees", "sales", "orders", "performance"}

\* The tables as init_database leaves them.
LoadedTables == InitDatabaseBody.live

\* The session and the last execute_query call of the last script run.
LastSession == lastRun[1].session
LastCall == lastRun[1].calls[Len(lastRun[1].calls)]
Called == lastRun # None /\ lastRun[1].calls # <<>>

\* A connection as it was before the step that may have created it.
Before(h) == IF h \in DOMAIN conns THEN conns[h] ELSE InitDatabaseBody

\* C1: whatever SQL texts execute_query has run, the four tables of every
\* store hold what init_database loaded.
C1_TablesNeverChange ==
    \A h \in DOMAIN conns :
       \A t \in TableNames :
          /\ t \in DOMAIN conns[h].live
          /\ conns[h].live[t] = LoadedTables[t]

\* C2: two sessions that are both alive never hold the same connection.
C2_ConnectionPerSession ==
    \A s1, s2 \in Sessions :
       (s1 # s2 /\ status[s1] = "active" /\ status[s2] = "active")
          => conn[s1] # conn[s2]

\* C3: a call with the syntax-error text returns (None, message), leaves the
\* store's tables as they were, and the running-total query returns after it
\* what it returned before it.
C3_SyntaxErrorLeavesStore ==
    [][(runs' = runs + 1 /\ lastRun'[1].calls # <<>>
        /\ lastRun'[1].calls[1].query = SyntaxErrorQuery)
       => /\ lastRun'[1].calls[1].result = None
          /\ lastRun'[1].calls[1].error # None
          /\ conns'[conn'[lastRun'[1].session][1]].live
               = Before(conn'[lastRun'[1].session][1]).live
          /\ ExecuteQuery(RunningTotalQuery,
                          conns'[conn'[lastRun'[1].session][1]]).result
               = ExecuteQuery(RunningTotalQuery,
                              Before(conn'[lastRun'[1].session][1])).result]_vars

\* C4: no script run dies of an exception out of execute_query, and every
\* call returned exactly one of a result table and an error message.
C4_ResultOrError ==
    /\ \A s \in Sessions : ~uncaught[s]
    /\ Called => (LastCall.result = None) # (LastCall.error = None)

\* An error outcome was returned to a session that is still alive.
C4_Witness ==
    /\ Called
    /\ LastCall.error # None
    /\ LastCall.result = None
    /\ status[LastSession] = "active"

\* C5 as stated: when the engine rejects a statement, the error message
\* execute_query returns is the engine's diagnostic, nothing added.
C5_ErrorIsEngineDiagnostic ==
    (Called /\ LastCall.error # None /\ LastCall.diag # None)
       => LastCall.error = LastCall.diag

\* C5 as amended: a returned error message is the text of the exception
\* pd.read_sql_query raised, unchanged: pandas' "Execution failed on sql
\* '<query>': " followed by the engine's diagnostic when the engine rejected
\* the statement, and the TypeError text of the failed materialization when
\* the engine ran a statement that returns no rows.
C5_ErrorIsExceptionText ==
    (Called /\ LastCall.error # None)
       => LastCall.error =
            Some(IF LastCall.diag # None
                 THEN "Execution failed on sql '" \o LastCall.query \o "': "
                      \o LastCall.diag[1]
                 ELSE "'NoneType' object is not iterable")

\* The engine rejected a statement and its diagnostic came back wrapped.
C5_Witness ==
    /\ Called
    /\ LastCall.error # None
    /\ LastCall.diag # None

\* C6: every store holds exactly the four tables, with their loaded columns.
C6_SchemaFixed ==
    \A h \in DOMAIN conns :
       /\ DOMAIN conns[h].live = TableNames
       /\ \A t \in TableNames : conns[h].live[t].cols = LoadedTables[t].cols

\* The datasets create_sample_data has returned: to init_database, and to the
\* Sample Data page of each session.
ReturnedDatasets ==
    {d[1] : d \in {e \in {provisioned} \cup {shown[s] : s \in Sessions} : e # None}}

C8_FreshStorePerCall ==
    [][runs' = runs + 1
       => /\ conn'[lastRun'[1].session][1] \notin handed
          /\ Before(conn'[lastRun'[1].session][1]).live = LoadedTables]_vars

\* C9: once a session has displayed the running-total example, a later run
\* of the example in that session displays the same table.
C9_ExampleRepeatable ==
    [][\A s \in Sessions :
          (example[s] # None /\ example'[s] # None) => example'[s] = example[s]]_vars

\* C10: once every session has ended, so that no code of the application
\* runs again, the connection each session used is closed.
C10_ReleasedAtSessionEnd ==
    (\A t \in Sessions : status[t] = "ended")
       => \A s \in Sessions : ~conns[conn[s][1]].open

\* C11: no two execute_query calls are in progress on the same connection at
\* the same time.
C11_OneCallPerConnection ==
    \A s1, s2 \in Sessions :
       (s1 # s2 /\ inflight[s1] # None /\ inflight[s2] # None)
          => inflight[s1][1].handle # inflight[s2][1].handle

\* The SQL texts of the calls of the last script run, in execution order.
LastTexts == [k \in DOMAIN lastRun[1].calls |-> lastRun[1].calls[k].query]

RECURSIVE SumSeq(_)
SumSeq(seq) == IF seq = <<>> THEN 0 ELSE Head(seq) + SumSeq(Tail(seq))

\* The salaries of the rows of employees table tbl that are of department d
\* and have an employee_id of at most maxId.
DeptSalaries(tbl, d, maxId) ==
    LET rows == SelectSeq(tbl.rows,
                          LAMBDA r : /\ r[ColIndex(tbl.cols, "department")] = d
                                     /\ r[ColIndex(tbl.cols, "employee_id")] <= maxId)
    IN [k \in DOMAIN rows |-> rows[k][ColIndex(tbl.cols, "salary")]]

\* The largest employee_id of department d in tbl.
DeptLastId(tbl, d) ==
    LET ids == {tbl.rows[k][ColIndex(tbl.cols, "employee_id")] :
                  k \in {j \in DOMAIN tbl.rows :
                           tbl.rows[j][ColIndex(tbl.cols, "department")] = d}}
    IN CHOOSE m \in ids : \A i \in ids : i <= m

\* The last call ran query q with a result, on the employees table as
\* provisioned.
OnProvisionedEmployees(q) ==
    /\ Called
    /\ LastCall.query = q
    /\ LastCall.result # None
    /\ conns[conn[LastSession][1]].live["employees"] = LoadedTables["employees"]

\* C13: the running-total query on the provisioned employees table returns
\* a row per employee whose running_total is the sum of the salaries of the
\* employees of its department with an employee_id up to its own; on the
\* last row of a department that is the sum over the whole department.
C13_RunningTotal ==
    OnProvisionedEmployees(RunningTotalQuery)
       => LET rows == LastCall.result[1].rows
              emp == LoadedTables["employees"]
          IN /\ Len(rows) = Len(emp.rows)
             /\ \A k \in DOMAIN rows :
                   /\ rows[k][5] = SumSeq(DeptSalaries(emp, rows[k][3], rows[k][1]))
                   /\ (k = Len(rows) \/ rows[k + 1][3] # rows[k][3])
                        => /\ rows[k][1] = DeptLastId(emp, rows[k][3])
                           /\ rows[k][5]
                                = SumSeq(DeptSalaries(emp, rows[k][3],
                                                      DeptLastId(emp, rows[k][3])))

\* The running-total example has run on the provisioned table.
C13_Witness ==
    /\ OnProvisionedEmployees(RunningTotalQuery)
    /\ lastRun[1].page = "Aggregate Functions"

\* The rows of partition column pc and amount column ac that are of row r's
\* partition and tie with r.
TieGroup(rows, r, pc, ac) ==
    {j \in DOMAIN rows : rows[j][pc] = r[pc] /\ rows[j][ac] = r[ac]}

\* Row n has the next distinct amount after row r in r's partition.
NextDistinct(rows, r, n, pc, ac) ==
    /\ n[pc] = r[pc]
    /\ n[ac] < r[ac]
    /\ \A j \in DOMAIN rows :
          rows[j][pc] = r[pc] => (rows[j][ac] <= n[ac] \/ rows[j][ac] >= r[ac])

\* In result rows of (rank, product, region, amount), ranked per value of
\* column pc by amount descending: ties share a rank, and after a tie group
\* of k rows of rank r the next distinct amount has rank r + gap(k).
RanksStep(rows, pc, Gap(_)) ==
    \A k \in DOMAIN rows :
       /\ \A j \in TieGroup(rows, rows[k], pc, 4) : rows[j][1] = rows[k][1]
       /\ \A j \in DOMAIN rows :
             NextDistinct(rows, rows[k], rows[j], pc, 4)
                => rows[j][1]
                     = rows[k][1] + Gap(Cardinality(TieGroup(rows, rows[k], pc, 4)))

\* The last script run was of the Ranking Functions page, all its examples
\* returned a result, and the sales and orders tables are as provisioned.
RankingRan ==
    /\ lastRun # None
    /\ lastRun[1].page = "Ranking Functions"
    /\ Len(lastRun[1].calls) = Len(RankingExamples)
    /\ \A k \in DOMAIN lastRun[1].calls : lastRun[1].calls[k].result # None
    /\ conns[conn[LastSession][1]].live["sales"] = LoadedTables["sales"]
    /\ conns[conn[LastSession][1]].live["orders"] = LoadedTables["orders"]

\* C14: in the RANK example (per region) and the DENSE_RANK example (per
\* product) on the provisioned sales table, rows of equal amount share a
\* rank, and a tie group of k rows of rank r is followed by rank r + k under
\* RANK and by rank r + 1 under DENSE_RANK.
C14_RankGaps ==
    RankingRan
       => /\ Len(lastRun[1].calls[1].result[1].rows) = Len(SalesAmount)
          /\ Len(lastRun[1].calls[2].result[1].rows) = Len(SalesAmount)
          /\ RanksStep(lastRun[1].calls[1].result[1].rows, 3, LAMBDA k : k)
          /\ RanksStep(lastRun[1].calls[2].result[1].rows, 2, LAMBDA k : 1)

\* The page has run, and both results hold a tie group of two rows that is
\* followed by a smaller amount.
C14_Witness ==
    /\ RankingRan
    /\ \A c \in {<<1, 3>>, <<2, 2>>} :
          LET rows == lastRun[1].calls[c[1]].result[1].rows
          IN \E k, j \in DOMAIN rows :
                /\ Cardinality(TieGroup(rows, rows[k], c[2], 4)) > 1
                /\ NextDistinct(rows, rows[k], rows[j], c[2], 4)

\* The number of rows of each bucket 1..n, rows with the bucket first.
BucketSizes(rows, n) ==
    [b \in 1..n |-> Cardinality({k \in DOMAIN rows : rows[k][1] = b})]

\* The calls of the last script run that evaluated NTILE(4) and returned a
\* result.
NtileCalls ==
    IF lastRun = None THEN {}
    ELSE {c \in Range(lastRun[1].calls) :
            c.query \in {NtileQuery, NtileEmployeesQuery} /\ c.result # None}

\* C15: NTILE(4) over 20 rows puts 5 rows in each bucket, over 10 rows it
\* puts 3, 3, 2 and 2 rows in buckets 1 to 4, and a row that comes earlier
\* in the window order never has a larger bucket number.
C15_NtileBuckets ==
    \A c \in NtileCalls :
       LET rows == c.result[1].rows
       IN /\ Len(rows) = Len(OrdersAmount) => BucketSizes(rows, 4) = <<5, 5, 5, 5>>
          /\ Len(rows) = Len(EmployeesData.rows)
               => BucketSizes(rows, 4) = <<3, 3, 2, 2>>
          /\ \A j, k \in DOMAIN rows :
                rows[j][3] > rows[k][3] => rows[j][1] <= rows[k][1]

\* NTILE(4) has run over the ten provisioned employees.
C15_Witness ==
    /\ OnProvisionedEmployees(NtileEmployeesQuery)
    /\ Len(LastCall.result[1].rows) = Len(EmployeesData.rows)

\* C16: on the provisioned employees table, LAST_VALUE(salary) OVER
\* (PARTITION BY department ORDER BY employee_id) returns each row's own
\* salary under the default frame, and the salary of the department's
\* largest employee_id under ROWS BETWEEN UNBOUNDED PRECEDING AND UNBOUNDED
\* FOLLOWING.
C16_LastValueFrames ==
    /\ OnProvisionedEmployees(LastValueDefaultQuery)
         => /\ Len(LastCall.result[1].rows) = Len(EmployeesData.rows)
            /\ \A k \in DOMAIN LastCall.result[1].rows :
                  LastCall.result[1].rows[k][4] = LastCall.result[1].rows[k][3]
    /\ OnProvisionedEmployees(LastValueFullQuery)
         => /\ Len(LastCall.result[1].rows) = Len(EmployeesData.rows)
            /\ \A k \in DOMAIN LastCall.result[1].rows :
                  \E j \in DOMAIN LastCall.result[1].rows :
                     /\ LastCall.result[1].rows[j][2] = LastCall.result[1].rows[k][2]
                     /\ LastCall.result[1].rows[j][1]
                          = DeptLastId(LoadedTables["employees"],
                                       LastCall.result[1].rows[k][2])
                     /\ LastCall.result[1].rows[k][4] = LastCall.result[1].rows[j][3]

\* The default-frame text has run on the provisioned table, where most rows
\* are not the last of their department.
C16_Witness ==
    /\ OnProvisionedEmployees(LastValueDefaultQuery)
    /\ \E k \in DOMAIN LastCall.result[1].rows :
          LastCall.result[1].rows[k][1]
             # DeptLastId(LoadedTables["employees"], LastCall.result[1].rows[k][2])

\* The values of column name of DataFrame df.
ColumnValues(df, name) ==
    {df.rows[k][ColIndex(df.cols, name)] : k \in DOMAIN df.rows}

\* C17: in every dataset create_sample_data returns, employee_id, sale_id
\* and order_id identify their rows, every product is A, B or C and every
\* region North, South, East or West, and there are exactly 4 departments,
\* 3 products, 4 regions and 9 customer ids.
C17_DataModel ==
    \A d \in ReturnedDatasets :
       /\ Cardinality(ColumnValues(d.employees, "employee_id")) = Len(d.employees.rows)
       /\ Cardinality(ColumnValues(d.sales, "sale_id")) = Len(d.sales.rows)
       /\ Cardinality(ColumnValues(d.orders, "order_id")) = Len(d.orders.rows)
       /\ ColumnValues(d.sales, "product") \subseteq {"A", "B", "C"}
       /\ ColumnValues(d.sales, "region") \subseteq {"North", "South", "East", "West"}
       /\ Cardinality(ColumnValues(d.employees, "department")) = 4
       /\ Cardinality(ColumnValues(d.sales, "product")) = 3
       /\ Cardinality(ColumnValues(d.sales, "region")) = 4
       /\ Cardinality(ColumnValues(d.orders, "customer_id")) = 9

\* The dataset has been provisioned and loaded into a store as returned.
C17_Witness ==
    /\ provisioned # None
    /\ cache # None
    /\ \A t \in {"employees", "sales", "orders"} :
          Len(conns[cache[1]].live[t].rows) = Len(provisioned[1][t].rows)

\* The reactions a session state counts as selected.
Selected(st) ==
    {b \in Buttons :
       CASE b = "love" -> st.loves > 0
         [] b = "like" -> st.likes > 0
         [] OTHER -> st.smiles > 0}

AllDisabled(st) == \A b \in Buttons : Disabled(st, b)

CustomSucceeded ==
    /\ Called
    /\ lastRun[1].page = "Custom Query"
    /\ LastCall.result # None

\* C19 as stated: after every successful free-text query the three
\* statistics are reported, whatever the number of rows of the result.
C19_StatisticsAlways == CustomSucceeded => lastRun[1].stats # None

\* C19 as amended: after a free-text query the three statistics are
\* reported exactly when the query succeeded with at least one row, and
\* then they are the result's number of rows, its number of columns and its
\* memory size in KB; for a result without rows none is reported.
C19_StatisticsWhenRows ==
    (Called /\ lastRun[1].page = "Custom Query")
       => /\ lastRun[1].stats # None
               <=> (LastCall.result # None /\ LastCall.result[1].rows # <<>>)
          /\ lastRun[1].stats # None
               => /\ lastRun[1].stats[1].rows = Len(LastCall.result[1].rows)
                  /\ lastRun[1].stats[1].columns = Len(LastCall.result[1].cols)
                  /\ lastRun[1].stats[1].memory
                       = FormatKB(MemoryUsage(LastCall.result[1]))

\* A free-text query succeeded with a result of no rows.
C19_Witness ==
    /\ CustomSucceeded
    /\ LastCall.result[1].rows = <<>>
    /\ Len(LastCall.result[1].cols) > 0

\* Date a is earlier than date b.
DateBefore(a, b) ==
    \/ a[1] < b[1]
    \/ a[1] = b[1] /\ a[2] < b[2]
    \/ a[1] = b[1] /\ a[2] = b[2] /\ a[3] < b[3]

\* C21: in every dataset create_sample_data returns, the order_date of the
\* orders row of index i (order_id i + 1) is a valid calendar date, is
\* 2024-01-01 plus 2 * i days, equals the sale_date of the sales row of the
\* same index, and is earlier than the order_date of the next row.
C21_OrderDates ==
    \A d \in ReturnedDatasets :
       /\ Len(d.orders.rows) = Len(d.sales.rows)
       /\ \A k \in DOMAIN d.orders.rows :
             LET date == d.orders.rows[k][ColIndex(d.orders.cols, "order_date")]
             IN /\ d.orders.rows[k][ColIndex(d.orders.cols, "order_id")] = k
                /\ ValidDate(date)
                /\ date = AddDays(<<2024, 1, 1>>, 2 * (k - 1))
                /\ date = d.sales.rows[k][ColIndex(d.sales.cols, "sale_date")]
                /\ k < Len(d.orders.rows)
                     => DateBefore(date,
                                   d.orders.rows[k + 1]
                                     [ColIndex(d.orders.cols, "order_date")])

\* A dataset has been returned whose orders rows reach into February: the
\* branch with the modulus was taken.
C21_Witness ==
    \E d \in ReturnedDatasets :
       \E k \in DOMAIN d.orders.rows :
          /\ (k - 1) * 2 + 1 > 31
          /\ d.orders.rows[k][ColIndex(d.orders.cols, "order_date")][2] = 2

\* C22: whenever a session is showing the Sample Data page's tables, each of
\* the four holds the rows of the table of that name in the store the
\* session's queries run against (as to_sql wrote them).
C22_SampleDataIsStore ==
    \A s \in Sessions :
       (status[s] = "active" /\ shown[s] # None)
          => \A t \in TableNames :
                /\ t \in DOMAIN conns[conn[s][1]].live
                /\ ToSqlTable(shown[s][1][t]).rows = conns[conn[s][1]].live[t].rows

====
